---- MODULE Spec2Model ----
(***************************************************************************)
(* Model of src/main.py: the /file-append and /file-summary handlers of    *)
(* the FastAPI service and the data.csv file they share.                   *)
(*                                                                         *)
(* The file is modelled at the level of its characters, so that the csv    *)
(* writer (quoting), the text-mode reader (newline translation) and the    *)
(* csv.DictReader state machine are computed as the library computes them. *)
(* A character is a one-character string; a Python str is a sequence of    *)
(* characters. The content of a file is kept in chunks: a chunk is either  *)
(* one special character (comma, quote, CR, LF) or a run of ordinary       *)
(* characters; the content is the concatenation of the chunks.             *)
(***************************************************************************)
EXTENDS Integers, Sequences, FiniteSets, TLC

\* ------------------------------------------------------------- bounds
\* Number of requests (of either kind) accepted: by the single event loop
\* (Spec), and by the server processes together (SpecWorkers).
MaxRequests == 3
MaxWorkerRequests == 2
\* The clock read by datetime.now() takes the values 0..MaxClock.
MaxClock == 1
\* The server processes sharing data.csv (SpecWorkers).
Workers == {1, 2}

\* ------------------------------------------------------------- characters
COMMA == ","
QUOTE == "\""
CR    == "\r"
LF    == "\n"
\* The reader's end-of-line marker (EOL in _csv.c); never a file character.
EOL   == "EOL"

\* Python's None, as a value that no str equals.
None == <<"None">>

\* The sentinel of lines 81 and 84.
Unknown == <<"u","n","k","n","o","w","n">>

\* The column names of line 96.
KeyDatetime  == <<"d","a","t","e","t","i","m","e">>
KeyIpAddress == <<"i","p","_","a","d","d","r","e","s","s">>
KeyUserAgent == <<"u","s","e","r","_","a","g","e","n","t">>
HeaderFields == <<KeyDatetime, KeyIpAddress, KeyUserAgent>>

\* ------------------------------------------------------------- inputs
\* request.client.host: absent client (the sentinel) or one of two addresses.
Ip1 == <<"1","0",".","0",".","0",".","1">>
Ip2 == <<"1","0",".","0",".","0",".","2">>
ClientIps == {Unknown, Ip1, Ip2}
\* The several-process specification draws its requests from fewer clients.
WorkerClientIps == {Unknown, Ip1}

\* The user-agent header: absent (the sentinel), or an agent holding a comma,
\* a quote character and a line break (CR LF).
AgentEvil == <<"a", COMMA, QUOTE, CR, LF, "b">>
UserAgents == {Unknown, AgentEvil}

\* ------------------------------------------------------------- datetime
Digit(n) == CASE n = 0 -> "0" [] n = 1 -> "1" [] n = 2 -> "2" [] n = 3 -> "3"
              [] n = 4 -> "4" [] n = 5 -> "5" [] n = 6 -> "6" [] n = 7 -> "7"
              [] n = 8 -> "8" [] n = 9 -> "9"

\* datetime.isoformat() of the instant `t` microseconds after
\* 2026-11-02T18:35:00 local time (t < 10^6): the fraction is left out when
\* the microsecond is 0, and is six digits otherwise.
IsoFormat(t) ==
    LET base == <<"2","0","2","6","-","1","1","-","0","2","T",
                  "1","8",":","3","5",":","0","0">>
        frac == <<".", Digit((t \div 100000) % 10), Digit((t \div 10000) % 10),
                  Digit((t \div 1000) % 10), Digit((t \div 100) % 10),
                  Digit((t \div 10) % 10), Digit(t % 10)>>
    IN  IF t = 0 THEN base ELSE base \o frac

\* ------------------------------------------------------------- chunks
Special == {COMMA, QUOTE, CR, LF}
IsSpecialChunk(ch) == Len(ch) = 1 /\ ch[1] \in Special

\* The chunks of a string: every special character alone, every maximal run
\* of ordinary characters together.
RECURSIVE Chunks(_)
Chunks(s) ==
    IF s = <<>> THEN <<>>
    ELSE IF Head(s) \in Special THEN <<<<Head(s)>>>> \o Chunks(Tail(s))
    ELSE LET rest == Chunks(Tail(s))
         IN  IF rest # <<>> /\ ~IsSpecialChunk(Head(rest))
             THEN <<<<Head(s)>> \o Head(rest)>> \o Tail(rest)
             ELSE <<<<Head(s)>>>> \o rest

\* Number of characters in a sequence of chunks.
RECURSIVE ByteLen(_)
ByteLen(chunks) ==
    IF chunks = <<>> THEN 0 ELSE Len(Head(chunks)) + ByteLen(Tail(chunks))

\* The chunks without their first n characters.
RECURSIVE DropBytes(_, _)
DropBytes(chunks, n) ==
    IF n = 0 \/ chunks = <<>> THEN chunks
    ELSE IF Len(Head(chunks)) <= n
         THEN DropBytes(Tail(chunks), n - Len(Head(chunks)))
         ELSE <<SubSeq(Head(chunks), n + 1, Len(Head(chunks)))>> \o Tail(chunks)

\* ------------------------------------------------------------- csv.writer
\* QUOTE_MINIMAL: a field is quoted when it holds the delimiter, the quote
\* character or a character of the line terminator "\r\n".
NeedsQuote(s) == \E i \in 1..Len(s) : s[i] \in {COMMA, QUOTE, CR, LF}

RECURSIVE DoubleQuotes(_)
DoubleQuotes(s) ==
    IF s = <<>> THEN <<>>
    ELSE (IF Head(s) = QUOTE THEN <<QUOTE, QUOTE>> ELSE <<Head(s)>>)
         \o DoubleQuotes(Tail(s))

QuoteField(s) ==
    IF NeedsQuote(s) THEN <<QUOTE>> \o DoubleQuotes(s) \o <<QUOTE>> ELSE s

RECURSIVE JoinFields(_)
JoinFields(fields) ==
    IF Len(fields) = 1 THEN Chunks(QuoteField(fields[1]))
    ELSE Chunks(QuoteField(Head(fields))) \o <<<<COMMA>>>> \o JoinFields(Tail(fields))

\* writer.writerow(fields): the characters handed to the file (newline="",
\* so the terminator "\r\n" is written as it stands).
WriteRow(fields) == JoinFields(fields) \o <<<<CR>>, <<LF>>>>

HeaderLine == WriteRow(HeaderFields)

\* ------------------------------------------------------------- text-mode read
\* open(path, "r") without newline="": universal newlines, "\r\n" and "\r"
\* both read as "\n".
IsKeptOnRead(p) == ~(p[1] = <<LF>> /\ p[2] = <<CR>>)

TranslateNewlines(b) ==
    LET pairs == [i \in 1..Len(b) |-> <<b[i], IF i > 1 THEN b[i - 1] ELSE <<>> >>]
        kept  == SelectSeq(pairs, IsKeptOnRead)
    IN  [i \in 1..Len(kept) |-> IF kept[i][1] = <<CR>> THEN <<LF>> ELSE kept[i][1]]

\* ------------------------------------------------------------- csv.reader
\* The parser of _csv.c (default dialect: no escapechar, doublequote, not
\* strict). r.field is the field being collected, r.fields the record being
\* collected, r.rows the records returned so far.
ReaderStart == [state |-> "START_RECORD", field |-> <<>>, fields |-> <<>>,
                rows |-> <<>>]

SaveField(r) == [r EXCEPT !.fields = Append(@, r.field), !.field = <<>>]
AddChar(r, c) == [r EXCEPT !.field = Append(@, c)]
AfterLineEnd(c) == IF c = EOL THEN "START_RECORD" ELSE "EAT_CRNL"

StartField(r, c) ==
    IF c \in {LF, CR, EOL} THEN [SaveField(r) EXCEPT !.state = AfterLineEnd(c)]
    ELSE IF c = QUOTE THEN [r EXCEPT !.state = "IN_QUOTED_FIELD"]
    ELSE IF c = COMMA THEN SaveField(r)
    ELSE [AddChar(r, c) EXCEPT !.state = "IN_FIELD"]

ProcessChar(r, c) ==
    CASE r.state = "START_RECORD" ->
            IF c = EOL THEN r
            ELSE IF c \in {LF, CR} THEN [r EXCEPT !.state = "EAT_CRNL"]
            ELSE StartField([r EXCEPT !.state = "START_FIELD"], c)
      [] r.state = "START_FIELD" -> StartField(r, c)
      [] r.state = "IN_FIELD" ->
            IF c \in {LF, CR, EOL}
            THEN [SaveField(r) EXCEPT !.state = AfterLineEnd(c)]
            ELSE IF c = COMMA THEN [SaveField(r) EXCEPT !.state = "START_FIELD"]
            ELSE AddChar(r, c)
      [] r.state = "IN_QUOTED_FIELD" ->
            IF c = EOL THEN r
            ELSE IF c = QUOTE THEN [r EXCEPT !.state = "QUOTE_IN_QUOTED_FIELD"]
            ELSE AddChar(r, c)
      [] r.state = "QUOTE_IN_QUOTED_FIELD" ->
            IF c = QUOTE THEN [AddChar(r, c) EXCEPT !.state = "IN_QUOTED_FIELD"]
            ELSE IF c = COMMA THEN [SaveField(r) EXCEPT !.state = "START_FIELD"]
            ELSE IF c \in {LF, CR, EOL}
            THEN [SaveField(r) EXCEPT !.state = AfterLineEnd(c)]
            ELSE [AddChar(r, c) EXCEPT !.state = "IN_FIELD"]
      [] r.state = "EAT_CRNL" ->
            IF c \in {LF, CR} THEN r
            ELSE IF c = EOL THEN [r EXCEPT !.state = "START_RECORD"]
            ELSE [r EXCEPT !.state = "ERROR"]
      \* csv.Error was raised ("new-line character seen in unquoted field"):
      \* nothing more is read. A line of a text-mode file holds nothing after
      \* its "\n", so the parser never gets here.
      [] r.state = "ERROR" -> r

\* The end of a line of the file iterator: the reader is fed EOL, and a
\* record is returned when the parser is back at START_RECORD.
EndOfLine(r) ==
    LET r1 == ProcessChar(r, EOL)
    IN  IF r1.state = "START_RECORD"
        THEN [r1 EXCEPT !.rows = Append(@, r1.fields), !.fields = <<>>]
        ELSE r1

\* End of input inside a record (an unterminated quoted field): not strict,
\* so the field is saved and the record returned.
EndOfInput(r) ==
    IF r.state = "IN_QUOTED_FIELD" \/ r.field # <<>>
    THEN Append(r.rows, Append(r.fields, r.field))
    ELSE r.rows

\* One chunk of a line. The "\n" that ends the line is followed by EOL. In
\* a run of ordinary characters the first one leaves the parser in a field
\* (IN_FIELD or IN_QUOTED_FIELD) or in ERROR, and in a field every further
\* ordinary character is added to it.
Feed(r, ch) ==
    LET r1 == ProcessChar(r, ch[1])
    IN  IF ch = <<LF>> THEN EndOfLine(r1)
        ELSE IF Len(ch) = 1 \/ r1.state = "ERROR" THEN r1
        ELSE [r1 EXCEPT !.field = @ \o Tail(ch)]

\* The chunks text[lo..hi] fed in order (split in halves to keep the
\* evaluation shallow).
RECURSIVE FeedAll(_, _, _, _)
FeedAll(text, lo, hi, r) ==
    IF lo > hi THEN r
    ELSE IF lo = hi THEN Feed(r, text[lo])
    ELSE LET mid == (lo + hi) \div 2
             left == FeedAll(text, lo, mid, r)
         IN  IF left.state = "ERROR" THEN left ELSE FeedAll(text, mid + 1, hi, left)

\* A last line without "\n" is still a line: it is followed by EOL too.
ReaderRun(text) ==
    LET r == FeedAll(text, 1, Len(text), ReaderStart)
    IN  EndOfInput(IF text # <<>> /\ text[Len(text)] # <<LF>> THEN EndOfLine(r) ELSE r)

\* list(csv.reader(f)) for a file f opened in text mode over the chunks b.
CsvReader(b) == ReaderRun(TranslateNewlines(b))

\* ------------------------------------------------------------- csv.DictReader
\* One row of DictReader: cols maps each field name to the row's value, or
\* to None (restval) when the row is shorter than the field names; rest is
\* what the row holds beyond the field names (stored under restkey None).
\* A repeated field name keeps its last occurrence, as dict(zip(...)) does.
LastIndex(fieldnames, k) ==
    CHOOSE i \in 1..Len(fieldnames) :
        /\ fieldnames[i] = k
        /\ \A j \in (i + 1)..Len(fieldnames) : fieldnames[j] # k

DictRow(fieldnames, row) ==
    [cols |-> [k \in {fieldnames[i] : i \in 1..Len(fieldnames)} |->
                  IF LastIndex(fieldnames, k) <= Len(row)
                  THEN row[LastIndex(fieldnames, k)] ELSE None],
     rest |-> IF Len(fieldnames) < Len(row)
              THEN SubSeq(row, Len(fieldnames) + 1, Len(row)) ELSE <<>>]

IsNonEmptyRecord(rec) == rec # <<>>

\* list(csv.DictReader(f)): the first record gives the field names, empty
\* records (blank lines) after it are skipped.
DictReader(b) ==
    LET recs == CsvReader(b)
    IN  IF recs = <<>> THEN <<>>
        ELSE LET data == SelectSeq(Tail(recs), IsNonEmptyRecord)
             IN  [i \in 1..Len(data) |-> DictRow(recs[1], data[i])]

HasKey(row, k) == k \in DOMAIN row.cols

\* ------------------------------------------------------------- the file
\* data.csv: whether it exists and the characters it holds (in chunks).
AbsentFile == [exists |-> FALSE, bytes |-> <<>>]

\* Path.exists()
Exists(f) == f.exists

\* Mutants: the header written through an appending handle, the row through
\* a truncating one.
HeaderOpenModeAppend == "a"
RowOpenModeTruncate == "w"

\* The modes the handlers open data.csv with (lines 94 and 99).
HeaderOpenMode == "w"
RowOpenMode == "a"

\* open(path, mode): "w" creates or truncates, "a" creates or leaves alone.
OpenFile(f, mode) ==
    IF mode = "w" THEN [exists |-> TRUE, bytes |-> <<>>]
    ELSE [exists |-> TRUE, bytes |-> f.bytes]

\* The write made when the handle is closed: a handle opened "w" is at
\* offset 0 and overwrites what is there; a handle opened "a" writes at the
\* end of the file, whatever was written since it was opened.
WriteFile(f, mode, data) ==
    IF mode = "w"
    THEN [f EXCEPT !.bytes = data \o DropBytes(f.bytes, ByteLen(data))]
    ELSE [f EXCEPT !.bytes = f.bytes \o data]

\* ------------------------------------------------------------- responses
\* The "message" of lines 109, 159 and 172.
AppendedMessage == "Data appended successfully"
SuccessMessage == "Summary generated successfully"
FallbackMessage == "Error generating summary with Writer SDK"

\* Lines 108-113.
AppendResponse(content) ==
    [status |-> 200, message |-> AppendedMessage, rows_added |-> 1,
     total_rows |-> Len(content), data |-> content]

\* Line 124.
NotFoundResponse == [status |-> 404, detail |-> "data.csv file not found"]

\* Line 132.
EmptyResponse ==
    [status |-> 200, message |-> "CSV file is empty",
     summary |-> "No data to summarize"]

\* An exception no handler catches: the framework answers 500.
ServerError(exc) == [status |-> 500, exception |-> exc]


\* Mutant: the sentinel is counted like any other value.
UniqueCountWithSentinel(content, key) ==
    Cardinality({content[i].cols[key] : i \in 1..Len(content)})

\* Lines 136-141: len(set(row[key] for row in csv_content if row[key] != "unknown"))
UniqueCount(content, key) ==
    Cardinality({content[i].cols[key] : i \in 1..Len(content)} \ {Unknown})

\* Lines 135-141 raise KeyError when a row has no such column.
AggregatesRaise(content) ==
    \E i \in 1..Len(content) :
        ~HasKey(content[i], KeyIpAddress) \/ ~HasKey(content[i], KeyUserAgent)

\* csv_content[0]["datetime"], csv_content[-1]["datetime"]: IndexError on an
\* empty list, KeyError on a row without the column.
DateRangeRaises(content) ==
    \/ content = <<>>
    \/ ~HasKey(content[1], KeyDatetime)
    \/ ~HasKey(content[Len(content)], KeyDatetime)

\* Mutant: the end taken from the first row too.
DateRangeFirstOnly(content) ==
    [start |-> content[1].cols[KeyDatetime], end |-> content[1].cols[KeyDatetime]]

\* Lines 163-166.
DateRange(content) ==
    [start |-> content[1].cols[KeyDatetime],
     end |-> content[Len(content)].cols[KeyDatetime]]

\* Lines 158-168.
SuccessResponse(content, text) ==
    [status |-> 200, message |-> SuccessMessage,
     total_rows |-> Len(content),
     unique_ips |-> UniqueCount(content, KeyIpAddress),
     unique_agents |-> UniqueCount(content, KeyUserAgent),
     date_range |-> DateRange(content),
     writer_summary |-> text]

\* Mutant: the failure response carries the aggregates as fields of their own.
FallbackResponseWithFields(content, cause) ==
    [status |-> 200, message |-> FallbackMessage,
     error |-> cause,
     total_rows |-> Len(content),
     unique_ips |-> UniqueCount(content, KeyIpAddress),
     unique_agents |-> UniqueCount(content, KeyUserAgent),
     date_range |-> DateRange(content),
     fallback_summary |-> [entries |-> Len(content),
                           unique_ips |-> UniqueCount(content, KeyIpAddress),
                           unique_agents |-> UniqueCount(content, KeyUserAgent),
                           from |-> content[1].cols[KeyDatetime],
                           to |-> content[Len(content)].cols[KeyDatetime]]]

\* Lines 171-175; the f-string is kept as the values it interpolates.
FallbackResponse(content, cause) ==
    [status |-> 200, message |-> FallbackMessage,
     error |-> cause,
     fallback_summary |-> [entries |-> Len(content),
                           unique_ips |-> UniqueCount(content, KeyIpAddress),
                           unique_agents |-> UniqueCount(content, KeyUserAgent),
                           from |-> content[1].cols[KeyDatetime],
                           to |-> content[Len(content)].cols[KeyDatetime]]]

\* ------------------------------------------------------------- the provider
\* writer_client.completions.create(...) followed by choices[0].text: the
\* call returns a text, raises, or returns a response without choices, on
\* which line 167 raises IndexError.
ProviderText == "narrative"
ProviderFailures == {"APIConnectionError", "IndexError"}
ProviderOutcomes == {ProviderText} \cup ProviderFailures

\* Mutant: no try/except around the provider call.
SummaryResponseUncaught(content, outcome) ==
    IF DateRangeRaises(content) THEN ServerError("KeyError")
    ELSE IF outcome \in ProviderFailures THEN ServerError(outcome)
    ELSE SuccessResponse(content, outcome)

\* Lines 152-175, given the provider's outcome.
SummaryResponse(content, outcome) ==
    IF DateRangeRaises(content) THEN ServerError("KeyError")
    ELSE IF outcome \in ProviderFailures THEN FallbackResponse(content, outcome)
    ELSE SuccessResponse(content, outcome)

\* ------------------------------------------------------------- state
VARIABLES
    file,           \* data.csv
    clock,          \* what datetime.now() returns, in microseconds
    pc,             \* per server process: where its handler stands
    csv_data,       \* per server process: the row of line 87
    csv_content,    \* per server process: the rows read at line 129
    response,       \* the last response returned to a client
    served,         \* number of responses returned
    providerCalls,  \* number of calls made to the provider
    appended        \* the rows written at line 101, in the order written

vars == <<file, clock, pc, csv_data, csv_content, response, served,
          providerCalls, appended>>

Init ==
    /\ file = AbsentFile
    /\ clock = 0
    /\ pc = [w \in Workers |-> "idle"]
    /\ csv_data = [w \in Workers |-> <<>>]
    /\ csv_content = [w \in Workers |-> <<>>]
    /\ response = [status |-> 0]
    /\ served = 0
    /\ providerCalls = 0
    /\ appended = <<>>

InFlight == Cardinality({w \in Workers : pc[w] # "idle"})

\* The servers accept MaxRequests requests on one event loop, and
\* MaxWorkerRequests when several processes serve.
MayAccept == served < MaxRequests
MayAcceptWorker == served + InFlight < MaxWorkerRequests

\* A request goes to an idle process; the processes are alike, so it is
\* the first idle one that takes it.
Takes(w) == pc[w] = "idle" /\ \A v \in Workers : pc[v] = "idle" => w <= v

\* datetime.now() at line 78: the clock does not run backwards, and any
\* time may have passed since it was last read.
Now(t) == t \in clock..MaxClock

\* ------------------------------------------------------------- /file-append
\* Lines 78-87.
CsvData(t, ip, ua) == <<IsoFormat(t), ip, ua>>

\* Line 93.
NeedsHeader(f) == ~Exists(f)

\* Lines 94-96 as a whole.
CreateWithHeader(f) ==
    WriteFile(OpenFile(f, HeaderOpenMode), HeaderOpenMode, HeaderLine)

\* Lines 99-101 as a whole.
AppendRow(f, row) == WriteFile(OpenFile(f, RowOpenMode), RowOpenMode, WriteRow(row))

\* Lines 104-106 and 127-129.
ReadContent(f) == DictReader(f.bytes)

\* The handler run from its first line to its last with nothing in between:
\* the handlers are coroutines without an await, so one event loop runs each
\* to its end before it starts another.
FileAppend(t, ip, ua) ==
    LET row == CsvData(t, ip, ua)
        f1  == IF NeedsHeader(file) THEN CreateWithHeader(file) ELSE file
        f2  == AppendRow(f1, row)
    IN  /\ MayAccept
        /\ Now(t)
        /\ clock' = t
        /\ file' = f2
        /\ appended' = Append(appended, row)
        /\ response' = AppendResponse(ReadContent(f2))
        /\ served' = served + 1
        /\ UNCHANGED <<pc, csv_data, csv_content, providerCalls>>

\* ------------------------------------------------------------- /file-summary
\* Mutant: no test for an empty csv_content (lines 131-132 left out).
BeforeProviderNoEmptyTest(f) ==
    IF ~Exists(f) THEN NotFoundResponse
    ELSE IF AggregatesRaise(ReadContent(f)) THEN ServerError("KeyError")
    ELSE [status |-> 0]

\* Lines 120-141: the response when the handler ends before the provider is
\* called, or status 0 when it goes on to line 152.
BeforeProvider(f) ==
    IF ~Exists(f) THEN NotFoundResponse
    ELSE LET content == ReadContent(f)
         IN  IF content = <<>> THEN EmptyResponse
             ELSE IF AggregatesRaise(content) THEN ServerError("KeyError")
             ELSE [status |-> 0]

CallsProvider(f) == BeforeProvider(f).status = 0

FileSummary(outcome) ==
    /\ MayAccept
    /\ IF CallsProvider(file)
       THEN /\ providerCalls' = providerCalls + 1
            /\ response' = SummaryResponse(ReadContent(file), outcome)
       ELSE /\ providerCalls' = providerCalls
            /\ response' = BeforeProvider(file)
    /\ served' = served + 1
    /\ UNCHANGED <<file, clock, pc, csv_data, csv_content, appended>>

\* One server process (python main.py: uvicorn.run(app)).
Next ==
    \/ \E t \in 0..MaxClock, ip \in ClientIps, ua \in UserAgents :
          FileAppend(t, ip, ua)
    \/ \E outcome \in ProviderOutcomes : FileSummary(outcome)

Spec == Init /\ [][Next]_vars

\* ------------------------------------------------------------- several processes
\* Several server processes (uvicorn workers) serve the same app object and
\* share data.csv. Each runs one handler at a time; the processes interleave
\* at the handlers' file operations.

\* Lines 78-93: the row is prepared and the existence of the file tested.
AppendBegin(w, t, ip, ua) ==
    /\ Takes(w)
    /\ MayAcceptWorker
    /\ Now(t)
    /\ clock' = t
    /\ csv_data' = [csv_data EXCEPT ![w] = CsvData(t, ip, ua)]
    /\ pc' = [pc EXCEPT ![w] = IF NeedsHeader(file) THEN "create" ELSE "append"]
    /\ UNCHANGED <<file, csv_content, response, served, providerCalls,
                   appended>>

\* Line 94: open(csv_file_path, "w").
AppendCreate(w) ==
    /\ pc[w] = "create"
    /\ file' = OpenFile(file, HeaderOpenMode)
    /\ pc' = [pc EXCEPT ![w] = "header"]
    /\ UNCHANGED <<clock, csv_data, csv_content, response, served,
                   providerCalls, appended>>

\* Lines 95-96: the header reaches the file when the with block closes it.
AppendHeader(w) ==
    /\ pc[w] = "header"
    /\ file' = WriteFile(file, HeaderOpenMode, HeaderLine)
    /\ pc' = [pc EXCEPT ![w] = "append"]
    /\ UNCHANGED <<clock, csv_data, csv_content, response, served,
                   providerCalls, appended>>

\* Lines 99-101.
AppendWrite(w) ==
    /\ pc[w] = "append"
    /\ file' = AppendRow(file, csv_data[w])
    /\ appended' = Append(appended, csv_data[w])
    /\ pc' = [pc EXCEPT ![w] = "read"]
    /\ UNCHANGED <<clock, csv_data, csv_content, response, served,
                   providerCalls>>

\* Lines 104-113.
AppendRead(w) ==
    /\ pc[w] = "read"
    /\ response' = AppendResponse(ReadContent(file))
    /\ served' = served + 1
    /\ pc' = [pc EXCEPT ![w] = "idle"]
    /\ csv_data' = [csv_data EXCEPT ![w] = <<>>]
    /\ UNCHANGED <<file, clock, csv_content, providerCalls, appended>>

\* Lines 120-150.
SummaryRead(w) ==
    /\ Takes(w)
    /\ MayAcceptWorker
    /\ IF CallsProvider(file)
       THEN /\ csv_content' = [csv_content EXCEPT ![w] = ReadContent(file)]
            /\ pc' = [pc EXCEPT ![w] = "provider"]
            /\ UNCHANGED <<response, served>>
       ELSE /\ response' = BeforeProvider(file)
            /\ served' = served + 1
            /\ UNCHANGED <<pc, csv_content>>
    /\ UNCHANGED <<file, clock, csv_data, providerCalls, appended>>

\* Lines 152-175.
SummaryProvider(w, outcome) ==
    /\ pc[w] = "provider"
    /\ providerCalls' = providerCalls + 1
    /\ response' = SummaryResponse(csv_content[w], outcome)
    /\ served' = served + 1
    /\ pc' = [pc EXCEPT ![w] = "idle"]
    /\ csv_content' = [csv_content EXCEPT ![w] = <<>>]
    /\ UNCHANGED <<file, clock, csv_data, appended>>

NextWorkers ==
    \/ \E w \in Workers, t \in 0..MaxClock, ip \in WorkerClientIps, ua \in UserAgents :
          AppendBegin(w, t, ip, ua)
    \/ \E w \in Workers : AppendCreate(w)
    \/ \E w \in Workers : AppendHeader(w)
    \/ \E w \in Workers : AppendWrite(w)
    \/ \E w \in Workers : AppendRead(w)
    \/ \E w \in Workers : SummaryRead(w)
    \/ \E w \in Workers, outcome \in ProviderOutcomes : SummaryProvider(w, outcome)

SpecWorkers == Init /\ [][NextWorkers]_vars

\* ------------------------------------------------------------- properties
IsAppended(r) == "message" \in DOMAIN r /\ r.message = AppendedMessage
IsSuccess(r)  == "message" \in DOMAIN r /\ r.message = SuccessMessage
IsFallback(r) == "message" \in DOMAIN r /\ r.message = FallbackMessage

\* A row with exactly the three columns, each a string.
WellFormed(row) ==
    /\ DOMAIN row.cols = {KeyDatetime, KeyIpAddress, KeyUserAgent}
    /\ row.rest = <<>>
    /\ \A k \in DOMAIN row.cols : row.cols[k] # None

IsPrefix(s, t) == Len(s) <= Len(t) /\ SubSeq(t, 1, Len(s)) = s

\* The values of a column over the rows.
Column(rows, key) == {rows[i].cols[key] : i \in 1..Len(rows)}

\* The instant an ISO string stands for.
TimeOf(iso) == CHOOSE t \in 0..MaxClock : IsoFormat(t) = iso

\* C1: on one event loop, reading the log back gives one well-formed row per
\* append, in the order of the appends (the i-th row carries the timestamp
\* and the address of the i-th append), also when appends repeat a row.
C1_AppendOrderPreserved ==
    /\ Exists(file) <=> appended # <<>>
    /\ LET rows == ReadContent(file)
       IN  /\ Len(rows) = Len(appended)
           /\ \A i \in 1..Len(rows) :
                 /\ WellFormed(rows[i])
                 /\ rows[i].cols[KeyDatetime] = appended[i][1]
                 /\ rows[i].cols[KeyIpAddress] = appended[i][2]
           /\ IsAppended(response) =>
                 response.data = rows /\ response.total_rows = Len(appended)

\* Three appends, the first two with the same field values, the third other.
C1_Witness ==
    /\ Len(appended) = 3
    /\ appended[1] = appended[2]
    /\ appended[3] # appended[1]
    /\ IsAppended(response)
    /\ response.total_rows = 3

\* C8 as claimed: every append is read back as one row, and the row has the
\* agent that was appended, character for character.
C8_AgentRoundTrips ==
    LET rows == ReadContent(file)
    IN  /\ Len(rows) = Len(appended)
        /\ \A i \in 1..Len(rows) :
               i <= Len(appended) => rows[i].cols[KeyUserAgent] = appended[i][3]

\* C6: the counts of a summary are the numbers of distinct values of the
\* address and agent columns of the rows read, the sentinel left out.
C6_UniqueCountsSkipUnknown ==
    LET rows == ReadContent(file)
    IN  /\ IsSuccess(response) =>
              /\ response.unique_ips =
                     Cardinality(Column(rows, KeyIpAddress) \ {Unknown})
              /\ response.unique_agents =
                     Cardinality(Column(rows, KeyUserAgent) \ {Unknown})
        /\ IsFallback(response) =>
              /\ response.fallback_summary.unique_ips =
                     Cardinality(Column(rows, KeyIpAddress) \ {Unknown})
              /\ response.fallback_summary.unique_agents =
                     Cardinality(Column(rows, KeyUserAgent) \ {Unknown})

\* A summary of rows that hold the sentinel in both columns, beside one known
\* address and one known agent.
C6_Witness ==
    /\ IsSuccess(response)
    /\ response.total_rows = 2
    /\ response.unique_ips = 1
    /\ response.unique_agents = 1
    /\ \E i, j \in 1..Len(appended) :
          appended[i][2] = Unknown /\ appended[j][3] = Unknown

\* C4: a failure of the provider ends in the fallback response, never in a
\* server error; its fallback_summary is made of the aggregates of the rows
\* (count, distinct known addresses and agents, first and last timestamp);
\* a summary request makes at most one call.
C4_ProviderFailureFallsBack ==
    /\ response.status # 500
    /\ providerCalls <= served - Len(appended)
    /\ IsSuccess(response) => response.writer_summary = ProviderText
    /\ IsFallback(response) =>
          LET rows == ReadContent(file)
          IN  /\ response.status = 200
              /\ response.error \in ProviderFailures
              /\ response.fallback_summary =
                   [entries |-> Len(appended),
                    unique_ips |-> Cardinality(Column(rows, KeyIpAddress) \ {Unknown}),
                    unique_agents |-> Cardinality(Column(rows, KeyUserAgent) \ {Unknown}),
                    from |-> appended[1][1],
                    to |-> appended[Len(appended)][1]]

C4_Witness ==
    /\ IsFallback(response)
    /\ response.fallback_summary.entries = 2
    /\ providerCalls = 1

\* C7 as claimed: every summary of a non-empty log carries the four
\* aggregates and a narrative as fields of the response.
C7_AlwaysFullReport ==
    (IsSuccess(response) \/ IsFallback(response)) =>
        /\ {"total_rows", "unique_ips", "unique_agents", "date_range"}
               \subseteq DOMAIN response
        /\ {"writer_summary", "fallback_summary"} \cap DOMAIN response # {}

\* C7 amended: the success response carries them; the failure response has
\* message, error and fallback_summary only, the aggregates being inside
\* the fallback_summary.
C7_ReportFields ==
    /\ IsSuccess(response) =>
          DOMAIN response = {"status", "message", "total_rows", "unique_ips",
                             "unique_agents", "date_range", "writer_summary"}
    /\ IsFallback(response) =>
          /\ DOMAIN response = {"status", "message", "error", "fallback_summary"}
          /\ DOMAIN response.fallback_summary =
                 {"entries", "unique_ips", "unique_agents", "from", "to"}

C7_Witness == IsFallback(response) /\ response.fallback_summary.entries >= 1

\* C10: the date range of a summary is the timestamp of the first row and
\* that of the last row, and with a clock that does not run backwards the
\* start is not after the end.
C10_DateRangeFirstLast ==
    /\ IsSuccess(response) =>
          /\ response.date_range.start = appended[1][1]
          /\ response.date_range.end = appended[Len(appended)][1]
          /\ TimeOf(response.date_range.start) <= TimeOf(response.date_range.end)
    /\ IsFallback(response) =>
          /\ response.fallback_summary.from = appended[1][1]
          /\ response.fallback_summary.to = appended[Len(appended)][1]
          /\ TimeOf(response.fallback_summary.from)
                 <= TimeOf(response.fallback_summary.to)

C10_Witness ==
    /\ IsSuccess(response)
    /\ response.total_rows = 2
    /\ TimeOf(response.date_range.start) < TimeOf(response.date_range.end)

\* The first n characters of a sequence of chunks.
RECURSIVE TakeBytes(_, _)
TakeBytes(chunks, n) ==
    IF n = 0 \/ chunks = <<>> THEN <<>>
    ELSE IF Len(Head(chunks)) <= n
         THEN Head(chunks) \o TakeBytes(Tail(chunks), n - Len(Head(chunks)))
         ELSE SubSeq(Head(chunks), 1, n)

HeaderBytes == TakeBytes(HeaderLine, ByteLen(HeaderLine))

\* The line of the file that starts at chunk i is the header line.
HeaderLineAt(chunks, i) ==
    TakeBytes(SubSeq(chunks, i, Len(chunks)), ByteLen(HeaderLine)) = HeaderBytes

\* A handler stands between lines 94 and 96: it has opened the file for the
\* header and not yet written it.
WritingHeader == \E w \in Workers : pc[w] = "header"

\* C2: whatever the processes did, once no handler is in the middle of
\* writing the header, an existing file starts with the header line and no
\* later line of it is the header line.
C2_HeaderOnce ==
    (Exists(file) /\ ~WritingHeader) =>
        /\ HeaderLineAt(file.bytes, 1)
        /\ \A i \in 2..Len(file.bytes) :
               file.bytes[i - 1] = <<LF>> => ~HeaderLineAt(file.bytes, i)

\* The file was created a second time after a row had been appended: the
\* row is gone and the file is the header line again.
C2_Witness ==
    /\ Exists(file)
    /\ ~WritingHeader
    /\ appended # <<>>
    /\ file.bytes = HeaderLine

\* C3 as claimed: the rows of the file at any time are a prefix of its rows
\* at any later time.
C3_AppendOnly ==
    [][Exists(file) => IsPrefix(ReadContent(file), ReadContent(file'))]_vars

\* A summary handler goes on to the provider, or ends before it.
GoesToProvider(w) == pc[w] = "idle" /\ pc'[w] = "provider"
EndsBeforeProvider == served' = served + 1 /\ pc' = pc

\* C5: a summary handler goes on to call the provider only when the file
\* exists and holds a data row; on an absent file it answers not-found and
\* on a file holding the header line alone it answers "no data", and the
\* provider is called by no step but the one that follows a non-empty read.
C5_ProviderOnlyWithData ==
    [][ /\ \A w \in Workers :
              GoesToProvider(w) =>
                  Exists(file) /\ ReadContent(file) # <<>> /\ csv_content'[w] # <<>>
        /\ EndsBeforeProvider =>
              /\ providerCalls' = providerCalls
              /\ ~Exists(file) => response' = NotFoundResponse
              /\ (Exists(file) /\ file.bytes = HeaderLine) => response' = EmptyResponse
        /\ providerCalls' # providerCalls =>
              \E w \in Workers : pc[w] = "provider" /\ csv_content[w] # <<>>
      ]_vars

\* A summary of the file holding the header line alone.
C5_Witness ==
    /\ response = EmptyResponse
    /\ Exists(file)
    /\ file.bytes = HeaderLine
    /\ providerCalls = 0

\* C9 as claimed: no response is computed from a row whose column count is
\* not three.
C9_MalformedRowRejected ==
    /\ IsAppended(response) =>
          \A i \in 1..Len(response.data) : WellFormed(response.data[i])
    /\ \A w \in Workers :
          pc[w] = "provider" =>
              \A i \in 1..Len(csv_content[w]) : WellFormed(csv_content[w][i])

====
